---- MODULE Spec2Model ----
(***************************************************************************)
(* Model of location_history_json_converter.py: main() and convert(), with *)
(* the header / location / footer writers, the filter chain and the        *)
(* coordinate overflow fix.                                                 *)
(*                                                                         *)
(* Python integers are unbounded while TLC's are 32 bit, so an E7          *)
(* coordinate is kept exactly as a pair <<hi, lo>> that stands for         *)
(* hi * 10^9 + lo with 0 <= lo < 10^9 (1800000000 is <<1, 800000000>>,     *)
(* 4294967296 is <<4, 294967296>>, -700000000 is <<-1, 300000000>>).       *)
(* Timestamps and dates are milliseconds since the epoch, on days 0..2.    *)
(* The output sink is the sequence of the pieces written to it.            *)
(***************************************************************************)
EXTENDS Integers, Sequences, FiniteSets, TLC

VARIABLES
    pc,         \* position in main() / convert()
    args,       \* the parsed command line (argparse namespace)
    answer,     \* the reply to the "continue anyway" prompt, upper-cased
    polygon,    \* main's polygon: NoPolygon (None) or a rectangle
    items,      \* the locations handed to convert(), as loaded
    f_out,      \* the output file: "unopened", "open" or "closed"
    locations,  \* convert's locations (sorted when chronological; items are mutated in place)
    idx,        \* number of items the for loop of convert has taken
    first,      \* convert's local first
    last_loc,   \* convert's local last_loc (NoItem stands for None)
    added,      \* convert's local added
    output,     \* everything written to the sink so far
    calls,      \* the writer calls made so far: "header", "location", "footer"
    log,        \* one entry per loop iteration: the item read, what became of it
    exc,        \* the exception that ended the run, "" when none
    norm        \* one coordinate under the overflow fix alone: <<x, fix(x), fix(fix(x))>>

vars == <<pc, args, answer, polygon, items, f_out, locations, idx, first,
          last_loc, added, output, calls, log, exc, norm>>

mainVars == <<pc, args, answer, polygon, items, f_out, locations, idx, first,
              last_loc, added, output, calls, log, exc>>

----------------------------------------------------------------------------
(* Bounds of the model *)

\* longest input sequence
MaxLen == 2

\* the probe coordinates have hi in -NormHi .. NormHi
NormHi == 7

----------------------------------------------------------------------------
(* Unbounded integers as <<hi, lo>> = hi * 10^9 + lo *)

Base == 10 ^ 9

Big(hi, lo) == <<hi, lo>>

\* a > b on Python integers
BigGT(a, b) == \/ a[1] > b[1]
               \/ a[1] = b[1] /\ a[2] > b[2]

BigGE(a, b) == a = b \/ BigGT(a, b)

\* a - b on Python integers
BigSub(a, b) == IF a[2] >= b[2]
                  THEN <<a[1] - b[1], a[2] - b[2]>>
                  ELSE <<a[1] - b[1] - 1, a[2] - b[2] + Base>>

\* the literal 1800000000 of the overflow test
OverflowLimit == Big(1, 800000000)

\* the literal 4294967296 subtracted by the overflow fix
OverflowWrap == Big(4, 294967296)

----------------------------------------------------------------------------
(* The overflow fix of convert() *)

\* a plausible slip: 2^31 in place of 2^32
NormalizeHalfWrap(x) == IF BigGT(x, OverflowLimit) THEN BigSub(x, Big(2, 147483648)) ELSE x

\* one coordinate: if x > 1800000000: x = x - 4294967296
Normalize(x) == IF BigGT(x, OverflowLimit) THEN BigSub(x, OverflowWrap) ELSE x

\* a plausible slip: the longitude is left as read
NormalizeItemLatOnly(item) == [item EXCEPT !.latitudeE7 = Normalize(item.latitudeE7)]

\* both coordinates of an item, in place
NormalizeItem(item) == [item EXCEPT !.latitudeE7 = Normalize(item.latitudeE7),
                                    !.longitudeE7 = Normalize(item.longitudeE7)]

----------------------------------------------------------------------------
(* Locations: a dict with optional keys; has<Key> tells whether a key is    *)
(* present, an absent key's value is 0.                                     *)

None == -1

NoItem == [hasTs |-> FALSE, timestampMs |-> 0,
           hasLat |-> FALSE, latitudeE7 |-> Big(0, 0),
           hasLon |-> FALSE, longitudeE7 |-> Big(0, 0),
           hasAcc |-> FALSE, accuracy |-> 0]

Loc(ts, lat, lon) == [NoItem EXCEPT !.hasTs = TRUE, !.timestampMs = ts,
                                    !.hasLat = TRUE, !.latitudeE7 = lat,
                                    !.hasLon = TRUE, !.longitudeE7 = lon]

WithAcc(item, a) == [item EXCEPT !.hasAcc = TRUE, !.accuracy = a]

DayMs == 24 * 60 * 60 * 1000

\* 40 degrees north, 70 degrees west, and the same longitude as an unsigned 32 bit value
Lat40 == Big(0, 400000000)
Lat41 == Big(0, 410000000)
LonW70 == Big(-1, 300000000)
LonW70Overflowed == Big(3, 594967296)

\* 39.9968 km north of 40 degrees north: just inside the 40 km of the track test
Lat40Near == Big(0, 403597000)

\* the records an input is made of
Universe ==
    { Loc(DayMs + 1000, Lat40, LonW70),                         \* day 1, no accuracy
      WithAcc(Loc(DayMs + 301000, Lat40, LonW70Overflowed), 10),\* 5 min later, overflowed longitude
      WithAcc(Loc(DayMs + 1201000, Lat41, LonW70), 50),         \* 20 min later, 111 km north
      Loc(2 * DayMs + 5000, Lat40, LonW70Overflowed),           \* day 2, overflowed longitude
      Loc(DayMs + 601000, Lat40Near, LonW70),                   \* exactly 10 min after the first
      Loc(1000, Big(1, 0), Big(0, 0)),                          \* day 0, latitudeE7 1000000000
      [Loc(DayMs + 2000, Lat40, LonW70) EXCEPT !.hasLat = FALSE, !.latitudeE7 = Big(0, 0)],
      [Loc(0, Lat40, LonW70) EXCEPT !.hasTs = FALSE] }

RECURSIVE SeqsUpTo(_, _)
SeqsUpTo(S, n) == IF n = 0 THEN { <<>> }
                  ELSE LET shorter == SeqsUpTo(S, n - 1)
                       IN  shorter \cup { Append(s, x) : s \in shorter, x \in S }

Inputs == SeqsUpTo(Universe, MaxLen)

----------------------------------------------------------------------------
(* The sink: a sequence of pieces. An element that is opened or closed is   *)
(* a piece of its own; the text written for one location carries the item  *)
(* as the writer saw it.                                                    *)

Text(s) == [k |-> "text", tag |-> s, item |-> NoItem]
Open(t) == [k |-> "open", tag |-> t, item |-> NoItem]
Close(t) == [k |-> "close", tag |-> t, item |-> NoItem]
Data(t, it) == [k |-> "data", tag |-> t, item |-> it]

Formats == {"kml", "json", "js", "jsonfull", "jsfull", "csv", "csvfull",
            "csvfullest", "gpx", "gpxtracks"}

JsonFormats == {"json", "js", "jsonfull", "jsfull"}

\* _write_header: the pieces written for the format
_write_header(format) ==
    IF format \in JsonFormats
      THEN (IF format \in {"js", "jsfull"} THEN <<Text("window.locationJsonData = ")>> ELSE <<>>)
           \o <<Open("{"), Open("[")>>
    ELSE IF format \in {"csv", "csvfull", "csvfullest"}
      THEN <<Text(format)>>
    ELSE IF format = "kml"
      THEN <<Text("<?xml?>"), Open("kml"), Open("Document"), Text("<name/>")>>
    ELSE IF format \in {"gpx", "gpxtracks"}
      THEN <<Text("<?xml?>"), Open("gpx"), Open("metadata"), Text("<name/>"), Close("metadata")>>
    ELSE <<>>

\* _write_footer that closes the document only: the track format is left
\* with its last track and segment open
_write_footerDocumentOnly(format) ==
    IF format \in JsonFormats
      THEN <<Close("["), Close("{")>>
           \o (IF format \in {"js", "jsfull"} THEN <<Text(";")>> ELSE <<>>)
    ELSE IF format = "kml"
      THEN <<Close("Document"), Close("kml")>>
    ELSE IF format \in {"gpx", "gpxtracks"}
      THEN <<Close("gpx")>>
    ELSE <<>>

\* _write_footer: the pieces written for the format (none for the csv formats)
_write_footer(format) ==
    IF format \in JsonFormats
      THEN <<Close("["), Close("{")>>
           \o (IF format \in {"js", "jsfull"} THEN <<Text(";")>> ELSE <<>>)
    ELSE IF format = "kml"
      THEN <<Close("Document"), Close("kml")>>
    ELSE IF format \in {"gpx", "gpxtracks"}
      THEN (IF format = "gpxtracks" THEN <<Close("trkseg"), Close("trk")>> ELSE <<>>)
           \o <<Close("gpx")>>
    ELSE <<>>

Abs(n) == IF n < 0 THEN -n ELSE n

\* _distance in whole metres, for the positions of Universe (with and without
\* the overflow fix); the values are those of the Haversine formula of the source
DistanceTable ==
    { <<Lat40, LonW70, Lat41, LonW70, 111194>>,
      <<Lat40, LonW70, Big(1, 0), Big(0, 0), 6006567>>,
      <<Lat40, LonW70, Lat40, LonW70Overflowed, 5757391>>,
      <<Lat41, LonW70, Big(1, 0), Big(0, 0), 5897686>>,
      <<Lat41, LonW70, Lat40, LonW70Overflowed, 5712751>>,
      <<Big(1, 0), Big(0, 0), Lat40, LonW70Overflowed, 6671657>>,
      <<Lat40Near, LonW70, Lat40, LonW70, 39996>>,
      <<Lat40Near, LonW70, Lat41, LonW70, 71198>>,
      <<Lat40Near, LonW70, Big(1, 0), Big(0, 0), 5967396>>,
      <<Lat40Near, LonW70, Lat40, LonW70Overflowed, 5741185>> }

_distance(lat1, lon1, lat2, lon2) ==
    IF lat1 = lat2 /\ lon1 = lon2 THEN 0
    ELSE LET e == CHOOSE t \in DistanceTable :
                     \/ <<t[1], t[2], t[3], t[4]>> = <<lat1, lon1, lat2, lon2>>
                     \/ <<t[1], t[2], t[3], t[4]>> = <<lat2, lon2, lat1, lon1>>
         IN  e[5]

\* NewTrack with the time limit included: a new track at exactly 10 minutes
NewTrackInclusive(location, last_location) ==
    \/ Abs(location.timestampMs - last_location.timestampMs) >= 10 * 60 * 1000
    \/ _distance(location.latitudeE7, location.longitudeE7,
                 last_location.latitudeE7, last_location.longitudeE7) > 40 * 1000

\* the test of the track format: more than 10 minutes or more than 40 km apart
NewTrack(location, last_location) ==
    \/ Abs(location.timestampMs - last_location.timestampMs) > 10 * 60 * 1000
    \/ _distance(location.latitudeE7, location.longitudeE7,
                 last_location.latitudeE7, last_location.longitudeE7) > 40 * 1000

\* the three keys of the compact json object
Compact(location) == [location EXCEPT !.hasAcc = FALSE, !.accuracy = 0]

\* _write_location: the pieces written for one location
_write_location(format, location, isFirst, last_location) ==
    IF format \in {"json", "js"}
      THEN (IF ~isFirst THEN <<Text(",")>> ELSE <<>>) \o <<Data("object", Compact(location))>>
    ELSE IF format \in {"jsonfull", "jsfull"}
      THEN (IF ~isFirst THEN <<Text(",")>> ELSE <<>>) \o <<Data("object", location)>>
    ELSE IF format = "csv"
      THEN <<Data("row", Compact(location))>>
    ELSE IF format \in {"csvfull", "csvfullest"}
      THEN <<Data("row", location)>>
    ELSE IF format = "kml"
      THEN <<Open("Placemark"), Data("TimeStamp", location)>>
           \o (IF location.hasAcc
                 THEN <<Open("ExtendedData"), Data("accuracy", location), Close("ExtendedData")>>
                 ELSE <<>>)
           \o <<Data("Point", location), Close("Placemark")>>
    ELSE IF format = "gpx"
      THEN <<Open("wpt"), Data("time", location), Data("desc", location), Close("wpt")>>
    ELSE IF format = "gpxtracks"
      THEN (IF isFirst THEN <<Open("trk"), Open("trkseg")>> ELSE <<>>)
           \o (IF last_location # NoItem /\ NewTrack(location, last_location)
                 THEN <<Close("trkseg"), Close("trk"), Open("trk"), Open("trkseg")>>
                 ELSE <<>>)
           \o <<Open("trkpt"), Data("time", location)>>
           \o (IF location.hasAcc THEN <<Data("desc", location)>> ELSE <<>>)
           \o <<Close("trkpt")>>
    ELSE <<>>

\* the stack of open elements after the pieces of out, or <<"unbalanced">>
\* as soon as a piece closes an element that is not the innermost open one
RECURSIVE OpenAfter(_, _)
OpenAfter(out, stack) ==
    IF out = <<>> THEN stack
    ELSE LET p == Head(out)
         IN  IF p.k = "open" THEN OpenAfter(Tail(out), <<p.tag>> \o stack)
             ELSE IF p.k = "close"
               THEN IF stack # <<>> /\ Head(stack) = p.tag
                      THEN OpenAfter(Tail(out), Tail(stack))
                      ELSE <<"unbalanced">>
             ELSE OpenAfter(Tail(out), stack)

\* every close matches the innermost open element and nothing is left open
WellFormed(out) == OpenAfter(out, <<>>) = <<>>

----------------------------------------------------------------------------
(* The command line and the environment of main() *)

\* --startdate / --enddate: None or the midnight that starts day 1
Dates == {None, DayMs}

\* --accuracy: None or 20
Accuracies == {None, 20}

\* number of --polygon points given
PolygonCounts == 0 .. 3

Args == [format : Formats, iterative : BOOLEAN, chronological : BOOLEAN,
         startdate : Dates, enddate : Dates, accuracy : Accuracies,
         npolygon : PolygonCounts, sameFile : BOOLEAN]

\* the two --polygon points of the model, (40.5, -71) and (39, -69), as E7 values
PolygonPoint1 == <<Big(0, 405000000), Big(-1, 290000000)>>
PolygonPoint2 == <<Big(0, 390000000), Big(-1, 310000000)>>

NoPolygon == [set |-> FALSE, latMin |-> Big(0, 0), latMax |-> Big(0, 0),
              lonMin |-> Big(0, 0), lonMax |-> Big(0, 0)]

BigMin(a, b) == IF BigGT(a, b) THEN b ELSE a
BigMax(a, b) == IF BigGT(a, b) THEN a ELSE b

\* the rectangle main() builds from two points
Rectangle(point1, point2) ==
    [set |-> TRUE,
     latMin |-> BigMin(point1[1], point2[1]), latMax |-> BigMax(point1[1], point2[1]),
     lonMin |-> BigMin(point1[2], point2[2]), lonMax |-> BigMax(point1[2], point2[2])]

\* _check_point: polygon.contains(Point(lat / 10000000, lon / 10000000)); contains
\* is true of the interior of the rectangle only
_check_point(poly, lat, lon) ==
    /\ BigGT(lat, poly.latMin) /\ BigGT(poly.latMax, lat)
    /\ BigGT(lon, poly.lonMin) /\ BigGT(poly.lonMax, lon)

\* what the user may type at the prompt, and str.upper() of it
Replies == {"y", "Y", "yes", "n", ""}

Upper(s) == CASE s = "y" -> "Y"
              [] s = "yes" -> "YES"
              [] s = "n" -> "N"
              [] OTHER -> s

\* a plausible slip: the reply is not looked at
ContinueAnywayAlways(reply) == TRUE

\* main() goes on after the prompt: not (answer != "Y" and answer != "YES")
ContinueAnyway(reply) == ~(reply # "Y" /\ reply # "YES")

----------------------------------------------------------------------------
(* convert(): the sort and the filter chain *)

\* a plausible slip: the input is taken as it comes
sortedAsRead(locs) == locs

\* sorted(locations, key=lambda item: item["timestampMs"]): a stable insertion sort
RECURSIVE InsertByTs(_, _)
InsertByTs(item, sortedSeq) ==
    IF sortedSeq = <<>> THEN <<item>>
    ELSE IF item.timestampMs < Head(sortedSeq).timestampMs
      THEN <<item>> \o sortedSeq
      ELSE <<Head(sortedSeq)>> \o InsertByTs(item, Tail(sortedSeq))

RECURSIVE SortRev(_)
SortRev(locs) ==
    IF locs = <<>> THEN <<>>
    ELSE LET n == Len(locs)
         IN  InsertByTs(locs[n], SortRev(SubSeq(locs, 1, n - 1)))

sorted(locs) == SortRev(locs)

\* the key function raises KeyError on an item without timestampMs
SortRaises(locs) == \E i \in 1 .. Len(locs) : ~locs[i].hasTs

\* if end_date and end_date < time
PastEnd(end_date, item) == end_date # None /\ end_date < item.timestampMs

\* the coordinates convert() hands to _check_point
PolygonArgs(item) == <<item.latitudeE7, item.longitudeE7>>

\* what one iteration of the for loop does with item, the tests in the order of the code
Verdict(item, a, poly) ==
    IF ~item.hasLon \/ ~item.hasLat \/ ~item.hasTs THEN "skip_missing"
    ELSE IF item.hasAcc /\ a.accuracy = None THEN "TypeError"
    ELSE IF item.hasAcc /\ item.accuracy > a.accuracy THEN "skip_accuracy"
    ELSE IF a.startdate # None /\ a.startdate > item.timestampMs THEN "skip_start"
    ELSE IF PastEnd(a.enddate, item)
      THEN (IF a.chronological THEN "break" ELSE "skip_end")
    ELSE IF poly.set /\ ~_check_point(poly, PolygonArgs(item)[1], PolygonArgs(item)[2])
      THEN "skip_polygon"
    ELSE "emit"

\* whether the iteration got as far as the polygon test
PolygonConsulted(item, a, poly) ==
    poly.set /\ Verdict(item, a, poly) \in {"skip_polygon", "emit"}

----------------------------------------------------------------------------
(* main() *)

Init ==
    /\ pc = "main"
    /\ args \in Args
    /\ answer = ""
    /\ polygon = NoPolygon
    /\ items = <<>>
    /\ f_out = "unopened"
    /\ locations = <<>>
    /\ idx = 0
    /\ first = TRUE
    /\ last_loc = NoItem
    /\ added = 0
    /\ output = <<>>
    /\ calls = <<>>
    /\ log = <<>>
    /\ exc = ""
    /\ norm = <<>>

convertVars == <<locations, idx, first, last_loc, added, output, calls, log>>

\* the checks of the arguments and the polygon: arg_parser.error() leaves with
\* status 2, a missing shapely returns, three or more points raise AttributeError
\* (a tuple has no split)
MainArguments ==
    /\ pc = "main"
    /\ \E shapely_available \in BOOLEAN :
         IF args.sameFile \/ args.npolygon = 1
           THEN pc' = "exit2" /\ UNCHANGED <<polygon, exc>>
         ELSE IF args.npolygon = 0
           THEN pc' = "input" /\ UNCHANGED <<polygon, exc>>
         ELSE IF ~shapely_available
           THEN pc' = "returned" /\ UNCHANGED <<polygon, exc>>
         ELSE IF args.npolygon = 2
           THEN pc' = "input" /\ polygon' = Rectangle(PolygonPoint1, PolygonPoint2)
                /\ UNCHANGED exc
         ELSE pc' = "raised" /\ exc' = "AttributeError" /\ UNCHANGED polygon
    /\ UNCHANGED <<args, answer, items, f_out, norm>>
    /\ UNCHANGED convertVars

\* --iterative: the prompt when --chronological is given too, then ijson.items
\* over the opened input
MainIterative ==
    /\ pc = "input"
    /\ args.iterative
    /\ \E reply \in Replies, ijson_available \in BOOLEAN, opened \in BOOLEAN, data \in Inputs :
         /\ answer' = IF args.chronological THEN Upper(reply) ELSE answer
         /\ IF args.chronological /\ ~ContinueAnyway(Upper(reply))
              THEN pc' = "returned" /\ UNCHANGED <<items, exc>>
            ELSE IF ~ijson_available
              THEN pc' = "returned" /\ UNCHANGED <<items, exc>>
            ELSE IF ~opened
              THEN pc' = "raised" /\ exc' = "OSError" /\ UNCHANGED items
            ELSE pc' = "output" /\ items' = data /\ UNCHANGED exc
    /\ UNCHANGED <<args, polygon, f_out, norm>>
    /\ UNCHANGED convertVars

\* without --iterative: read and decode the whole file, take data["locations"]
MainLoad ==
    /\ pc = "input"
    /\ ~args.iterative
    /\ \E outcome \in {"ok", "OSError", "MemoryError", "ValueError", "KeyError"}, data \in Inputs :
         IF outcome = "ok"
           THEN pc' = "output" /\ items' = data /\ UNCHANGED exc
         ELSE IF outcome = "KeyError"
           THEN pc' = "raised" /\ exc' = "KeyError" /\ UNCHANGED items
         ELSE pc' = "returned" /\ UNCHANGED <<items, exc>>
    /\ UNCHANGED <<args, answer, polygon, f_out, norm>>
    /\ UNCHANGED convertVars

\* open the output; the end date becomes the last millisecond of its day
\* (replace(hour=23, minute=59, second=59, microsecond=999999), whole milliseconds
\* being all a timestamp can tell apart)
MainOpenOutput ==
    /\ pc = "output"
    /\ \E opened \in BOOLEAN :
         IF opened
           THEN /\ f_out' = "open"
                /\ args' = [args EXCEPT !.enddate =
                              IF @ # None THEN @ + DayMs - 1 ELSE @]
                /\ pc' = "convert"
           ELSE pc' = "returned" /\ UNCHANGED <<f_out, args>>
    /\ UNCHANGED <<answer, polygon, items, exc, norm>>
    /\ UNCHANGED convertVars

----------------------------------------------------------------------------
(* convert() *)

\* if chronological: locations = sorted(...)
ConvertSort ==
    /\ pc = "convert"
    /\ IF args.chronological /\ SortRaises(items)
         THEN pc' = "raised" /\ exc' = "KeyError" /\ UNCHANGED locations
         ELSE /\ locations' = IF args.chronological THEN sorted(items) ELSE items
              /\ pc' = "header"
              /\ UNCHANGED exc
    /\ UNCHANGED <<args, answer, polygon, items, f_out, idx, first, last_loc, added,
                   output, calls, log, norm>>

\* _write_header, then first = True, last_loc = None, added = 0
ConvertHeader ==
    /\ pc = "header"
    /\ output' = output \o _write_header(args.format)
    /\ calls' = Append(calls, "header")
    /\ first' = TRUE
    /\ last_loc' = NoItem
    /\ added' = 0
    /\ idx' = 0
    /\ pc' = IF locations = <<>> THEN "footer" ELSE "loop"
    /\ UNCHANGED <<args, answer, polygon, items, f_out, locations, log, exc, norm>>

\* ConvertItem with the overflow fix moved in front of the filters: a record
\* is rewritten in place whether or not it is written
ConvertItemFixFirst ==
    /\ pc = "loop"
    /\ idx < Len(locations)
    /\ LET item == locations[idx + 1]
           fixed == NormalizeItem(item)
           v == Verdict(fixed, args, polygon)
           entry == [item |-> item, verdict |-> v,
                     polygonSaw |-> IF PolygonConsulted(fixed, args, polygon)
                                     THEN PolygonArgs(fixed) ELSE <<>>,
                     first |-> first, last |-> last_loc, added |-> added]
       IN  /\ log' = Append(log, entry)
           /\ idx' = idx + 1
           /\ locations' = [locations EXCEPT ![idx + 1] = fixed]
           /\ IF v = "emit"
                THEN /\ output' = output \o _write_location(args.format, fixed, first, last_loc)
                     /\ calls' = Append(calls, "location")
                     /\ first' = FALSE
                     /\ last_loc' = fixed
                     /\ added' = added + 1
                ELSE UNCHANGED <<output, calls, first, last_loc, added>>
           /\ IF v = "TypeError"
                THEN pc' = "raised" /\ exc' = "TypeError"
                ELSE /\ pc' = IF v = "break" \/ idx + 1 = Len(locations)
                                THEN "footer" ELSE "loop"
                     /\ UNCHANGED exc
    /\ UNCHANGED <<args, answer, polygon, items, f_out, norm>>

\* ConvertItem with first cleared by every iteration: first means the first
\* record read, not the first record written
ConvertItemFirstRead ==
    /\ pc = "loop"
    /\ idx < Len(locations)
    /\ LET item == locations[idx + 1]
           v == Verdict(item, args, polygon)
           fixed == NormalizeItem(item)
           entry == [item |-> item, verdict |-> v,
                     polygonSaw |-> IF PolygonConsulted(item, args, polygon)
                                     THEN PolygonArgs(item) ELSE <<>>,
                     first |-> first, last |-> last_loc, added |-> added]
       IN  /\ log' = Append(log, entry)
           /\ idx' = idx + 1
           /\ first' = FALSE
           /\ IF v = "emit"
                THEN /\ locations' = [locations EXCEPT ![idx + 1] = fixed]
                     /\ output' = output \o _write_location(args.format, fixed, first, last_loc)
                     /\ calls' = Append(calls, "location")
                     /\ last_loc' = fixed
                     /\ added' = added + 1
                ELSE UNCHANGED <<locations, output, calls, last_loc, added>>
           /\ IF v = "TypeError"
                THEN pc' = "raised" /\ exc' = "TypeError"
                ELSE /\ pc' = IF v = "break" \/ idx + 1 = Len(locations)
                                THEN "footer" ELSE "loop"
                     /\ UNCHANGED exc
    /\ UNCHANGED <<args, answer, polygon, items, f_out, norm>>

\* one iteration of for item in locations
ConvertItem ==
    /\ pc = "loop"
    /\ idx < Len(locations)
    /\ LET item == locations[idx + 1]
           v == Verdict(item, args, polygon)
           fixed == NormalizeItem(item)
           entry == [item |-> item, verdict |-> v,
                     polygonSaw |-> IF PolygonConsulted(item, args, polygon)
                                     THEN PolygonArgs(item) ELSE <<>>,
                     first |-> first, last |-> last_loc, added |-> added]
       IN  /\ log' = Append(log, entry)
           /\ idx' = idx + 1
           /\ IF v = "emit"
                THEN /\ locations' = [locations EXCEPT ![idx + 1] = fixed]
                     /\ output' = output \o _write_location(args.format, fixed, first, last_loc)
                     /\ calls' = Append(calls, "location")
                     /\ first' = FALSE
                     /\ last_loc' = fixed
                     /\ added' = added + 1
                ELSE UNCHANGED <<locations, output, calls, first, last_loc, added>>
           /\ IF v = "TypeError"
                THEN pc' = "raised" /\ exc' = "TypeError"
                ELSE /\ pc' = IF v = "break" \/ idx + 1 = Len(locations)
                                THEN "footer" ELSE "loop"
                     /\ UNCHANGED exc
    /\ UNCHANGED <<args, answer, polygon, items, f_out, norm>>

\* _write_footer
ConvertFooter ==
    /\ pc = "footer"
    /\ output' = output \o _write_footer(args.format)
    /\ calls' = Append(calls, "footer")
    /\ pc' = "close"
    /\ UNCHANGED <<args, answer, polygon, items, f_out, locations, idx, first,
                   last_loc, added, log, exc, norm>>

\* f_out.close()
MainClose ==
    /\ pc = "close"
    /\ f_out' = "closed"
    /\ pc' = "done"
    /\ UNCHANGED <<args, answer, polygon, items, exc, norm>>
    /\ UNCHANGED convertVars

Next ==
    \/ MainArguments
    \/ MainIterative
    \/ MainLoad
    \/ MainOpenOutput
    \/ ConvertSort
    \/ ConvertHeader
    \/ ConvertItem
    \/ ConvertFooter
    \/ MainClose

Spec == Init /\ [][Next]_vars

----------------------------------------------------------------------------
(* convert() called on its own, with its default arguments, on one record   *)
(* whose coordinates range over the probe values                            *)

ProbeLo == {0, 1, 94967296, 94967297, 100000000, 147483648, 200000000,
            294967295, 294967296, 394967296, 494967296, 800000000, 800000001,
            852516352, 900000000, 900000001, 999999999}

ProbeCoords == { Big(hi, lo) : hi \in (0 - NormHi) .. NormHi, lo \in ProbeLo }

\* the defaults of convert(): format="kml", no filter, chronological=False
DefaultArgs == [format |-> "kml", iterative |-> FALSE, chronological |-> FALSE,
                startdate |-> None, enddate |-> None, accuracy |-> None,
                npolygon |-> 0, sameFile |-> FALSE]

InitConvert ==
    /\ pc = "convert"
    /\ args = DefaultArgs
    /\ answer = ""
    /\ polygon = NoPolygon
    /\ items \in { <<Loc(1000, lat, lon)>> : lat \in ProbeCoords, lon \in ProbeCoords }
    /\ f_out = "open"
    /\ locations = <<>>
    /\ idx = 0
    /\ first = TRUE
    /\ last_loc = NoItem
    /\ added = 0
    /\ output = <<>>
    /\ calls = <<>>
    /\ log = <<>>
    /\ exc = ""
    /\ norm = <<>>

NextConvert ==
    \/ ConvertSort
    \/ ConvertHeader
    \/ ConvertItem
    \/ ConvertFooter

SpecConvert == InitConvert /\ [][NextConvert]_vars

----------------------------------------------------------------------------
(* The overflow fix on its own, applied twice to one coordinate *)

InitNorm ==
    /\ pc = "norm"
    /\ args = DefaultArgs
    /\ answer = ""
    /\ polygon = NoPolygon
    /\ items = <<>>
    /\ f_out = "unopened"
    /\ locations = <<>>
    /\ idx = 0
    /\ first = TRUE
    /\ last_loc = NoItem
    /\ added = 0
    /\ output = <<>>
    /\ calls = <<>>
    /\ log = <<>>
    /\ exc = ""
    /\ norm \in { <<x>> : x \in ProbeCoords }

NormApply ==
    /\ pc = "norm"
    /\ Len(norm) < 3
    /\ norm' = Append(norm, Normalize(norm[Len(norm)]))
    /\ UNCHANGED mainVars

NextNorm == NormApply

SpecNorm == InitNorm /\ [][NextNorm]_vars

----------------------------------------------------------------------------
(* Properties *)

\* convert() has returned, or an exception has left it
ConvertReturned == pc \in {"close", "done"}
ConvertRaised == pc = "raised" /\ f_out = "open"
ConvertOver == ConvertReturned \/ ConvertRaised

\* the entries of the log whose item was written
EmitIndexes == { i \in 1 .. Len(log) : log[i].verdict = "emit" }

\* C1: convert writes header, then zero or more records, then the footer:
\* the header is the first writer call and the only one of its kind, the
\* footer is the last one, and once convert is over (also after the early
\* exit) the footer has been written.
C1_HeaderRecordsFooter ==
    /\ \A i \in 1 .. Len(calls) :
         /\ (calls[i] = "header") <=> (i = 1)
         /\ (calls[i] = "footer") => (i = Len(calls))
    /\ ConvertOver => (calls # <<>> /\ calls[Len(calls)] = "footer")

\* C2: when no record was written (an empty input or every record skipped),
\* header and footer together are well formed: every element the footer
\* closes was opened before, for every format.
C2_EmptyWellFormed ==
    (ConvertReturned /\ added = 0) => WellFormed(output)

\* the three predicates of the filter as the specification states them:
\* both date bounds inclusive, the accuracy test only when both values are
\* there, the polygon test on the record's (corrected) position
PassesDate(item, a) ==
    /\ a.startdate # None => item.timestampMs >= a.startdate
    /\ a.enddate # None => item.timestampMs <= a.enddate
PassesAccuracy(item, a) ==
    (item.hasAcc /\ a.accuracy # None) => ~(item.accuracy > a.accuracy)
PassesPolygon(item, poly) ==
    poly.set => _check_point(poly, Normalize(item.latitudeE7), Normalize(item.longitudeE7))

\* C3: without the early exit (chronological not set), a record that is read
\* is written if and only if it has latitude and longitude and passes the
\* date, the accuracy and the polygon predicate.
C3_EmittedIffPasses ==
    \A i \in 1 .. Len(log) :
      (~args.chronological /\ log[i].item.hasTs) =>
        ( (log[i].verdict = "emit")
          <=> ( /\ log[i].item.hasLat /\ log[i].item.hasLon
                /\ PassesDate(log[i].item, args)
                /\ PassesAccuracy(log[i].item, args)
                /\ PassesPolygon(log[i].item, polygon) ) )

\* C4: with no maximum accuracy (accuracy=None), a record that carries an
\* accuracy is neither rejected by the accuracy test nor does it make the
\* conversion fail.
C4_NoMaxAccuracyNoFailure ==
    \A i \in 1 .. Len(log) :
      (args.accuracy = None /\ log[i].item.hasAcc
         /\ log[i].item.hasLat /\ log[i].item.hasLon /\ log[i].item.hasTs)
        => log[i].verdict \notin {"skip_accuracy", "TypeError"}

\* C5: whenever the polygon test is made, it is made on the corrected
\* coordinates of the record, never on the overflowed ones.
C5_PolygonSeesCorrected ==
    \A i \in 1 .. Len(log) :
      log[i].polygonSaw # <<>> =>
        log[i].polygonSaw = <<Normalize(log[i].item.latitudeE7),
                              Normalize(log[i].item.longitudeE7)>>

\* C6 as stated: for every integer x, a second application of the overflow
\* fix changes nothing.
C6_IdempotentAllIntegers ==
    Len(norm) = 3 => norm[3] = norm[2]

\* 1800000000 + 4294967296, the largest x that one application brings to
\* 1800000000 or below
TwiceLimit == Big(6, 94967296)

\* C6 (amended): for every integer x <= 6094967296 (so on the whole signed and
\* unsigned 32 bit range), a second application of the overflow fix changes
\* nothing.
C6_IdempotentUpToTwiceLimit ==
    (Len(norm) = 3 /\ ~BigGT(norm[1], TwiceLimit)) => norm[3] = norm[2]

\* an overflowed 32 bit value has been fixed once and fixed again
C6_Witness ==
    /\ Len(norm) = 3
    /\ norm[1] = Big(4, 294967295)
    /\ norm[2] = Big(-1, 999999999)
    /\ norm[3] = norm[2]

\* the E7 ranges of a latitude and a longitude
InLatRange(x) == BigGE(x, Big(-1, 100000000)) /\ BigGE(Big(0, 900000000), x)
InLonRange(x) == BigGE(x, Big(-2, 200000000)) /\ BigGE(Big(1, 800000000), x)

\* -2^31 .. 2^32 - 1: the signed and the unsigned 32 bit integers
In32Bit(x) == BigGE(x, Big(-3, 852516352)) /\ BigGE(Big(4, 294967295), x)

\* v + 2^32 for a negative v of the range: the unsigned 32 bit form of it
UnsignedFormOfLat(x) == BigGE(x, Big(3, 394967296)) /\ BigGE(Big(4, 294967295), x)
UnsignedFormOfLon(x) == BigGE(x, Big(2, 494967296)) /\ BigGE(Big(4, 294967295), x)

\* the coordinates written to the sink
WrittenItems == { output[i].item : i \in { j \in 1 .. Len(output) : output[j].k = "data" } }

\* C7 as stated: a record whose raw coordinates are any 32 bit integers,
\* signed or unsigned, is written with latitudeE7 in -900000000 .. 900000000
\* and longitudeE7 in -1800000000 .. 1800000000.
C7_InRangeFromAny32Bit ==
    \A i \in EmitIndexes :
      (In32Bit(log[i].item.latitudeE7) /\ In32Bit(log[i].item.longitudeE7)) =>
        /\ InLatRange(locations[i].latitudeE7) /\ InLonRange(locations[i].longitudeE7)
        /\ \A w \in WrittenItems : InLatRange(w.latitudeE7) /\ InLonRange(w.longitudeE7)

\* C7 (amended): a record whose raw latitudeE7 / longitudeE7 is a value of
\* the E7 range, or the unsigned 32 bit form (value + 2^32) of a negative
\* one, is written with latitudeE7 in -900000000 .. 900000000 and
\* longitudeE7 in -1800000000 .. 1800000000.
C7_InRangeFromEncodedRange ==
    \A i \in EmitIndexes :
      ( /\ InLatRange(log[i].item.latitudeE7) \/ UnsignedFormOfLat(log[i].item.latitudeE7)
        /\ InLonRange(log[i].item.longitudeE7) \/ UnsignedFormOfLon(log[i].item.longitudeE7) ) =>
        /\ InLatRange(locations[i].latitudeE7) /\ InLonRange(locations[i].longitudeE7)
        /\ \A w \in WrittenItems : InLatRange(w.latitudeE7) /\ InLonRange(w.longitudeE7)

\* the record with the unsigned forms of -90 and -180 degrees has been written
\* as -900000000, -1800000000
C7_Witness ==
    /\ pc = "close"
    /\ items[1].latitudeE7 = Big(3, 394967296)
    /\ items[1].longitudeE7 = Big(2, 494967296)
    /\ \E w \in WrittenItems :
         w.latitudeE7 = Big(-1, 100000000) /\ w.longitudeE7 = Big(-2, 200000000)

\* the sort of convert() is behind: the header is about to be written or later
PastSort == pc \in {"header", "loop", "footer", "close", "done"}
             \/ (pc = "raised" /\ exc = "TypeError")

\* no record with a timestamp comes before one with an earlier timestamp
SortedByTs(locs) ==
    \A i, j \in 1 .. Len(locs) :
      (i < j /\ locs[i].hasTs /\ locs[j].hasTs) => locs[i].timestampMs <= locs[j].timestampMs

\* how often x occurs in locs
Count(locs, x) == Cardinality({ i \in 1 .. Len(locs) : locs[i] = x })

\* the records are written in non-decreasing timestamp order
EmittedInTimeOrder ==
    \A i, j \in EmitIndexes : i < j => log[i].item.timestampMs <= log[j].item.timestampMs

\* C8 as stated: if chronological ordering was requested or the format is
\* gpxtracks, the input is sorted ascending by timestamp before the header is
\* written, and the records are written in non-decreasing timestamp order.
C8_SortedWhenRequestedOrTracks ==
    (PastSort /\ (args.chronological \/ args.format = "gpxtracks")) =>
      /\ SortedByTs(locations)
      /\ EmittedInTimeOrder

\* C8 (amended): if chronological ordering was requested (the gpxtracks
\* format alone does not request it), the input is sorted ascending by
\* timestamp before the header is written: the locations convert iterates
\* are the loaded items in non-decreasing timestamp order, and the records
\* are written in non-decreasing timestamp order.
C8_SortedWhenRequested ==
    (PastSort /\ args.chronological) =>
      /\ SortedByTs(locations)
      /\ Len(locations) = Len(items)
      /\ pc = "header" => \A x \in Universe : Count(locations, x) = Count(items, x)
      /\ EmittedInTimeOrder

\* an input that is not in time order has been sorted and written, both records
C8_Witness ==
    /\ pc = "done"
    /\ args.chronological
    /\ ~SortedByTs(items)
    /\ Cardinality(EmitIndexes) = 2
    /\ log[1].item.timestampMs < log[2].item.timestampMs

\* the records written by convert(), as handed to the writer
Emitted == [ k \in 1 .. Cardinality(EmitIndexes) |->
               locations[CHOOSE i \in EmitIndexes :
                           Cardinality({ j \in EmitIndexes : j <= i }) = k] ]

\* the same pipeline with the break replaced by continue: the records it
\* writes (it stops where the accuracy test raises)
RECURSIVE PlainSkipLoop(_, _, _)
PlainSkipLoop(locs, a, poly) ==
    IF locs = <<>> THEN <<>>
    ELSE LET v == Verdict(Head(locs), a, poly)
         IN  IF v = "TypeError" THEN <<>>
             ELSE IF v = "emit"
               THEN <<NormalizeItem(Head(locs))>> \o PlainSkipLoop(Tail(locs), a, poly)
             ELSE PlainSkipLoop(Tail(locs), a, poly)

PlainSkipEmitted(locs, a, poly) ==
    IF a.chronological /\ SortRaises(locs) THEN <<>>
    ELSE PlainSkipLoop(IF a.chronological THEN sorted(locs) ELSE locs, a, poly)

\* C9: with chronological order in force, the records convert writes are
\* the records the same pipeline writes with the early exit replaced by a
\* plain skip, because every record after the stopping point is later than
\* the end date.
C9_EarlyExitSameRecords ==
    (ConvertOver /\ args.chronological) =>
      /\ Emitted = PlainSkipEmitted(items, args, polygon)
      /\ ConvertReturned =>
           \A j \in (idx + 1) .. Len(locations) : PastEnd(args.enddate, locations[j])

\* the loop has stopped early at a record later than the end date, with a
\* record left unread, and convert has returned
C9_Witness ==
    /\ pc = "done"
    /\ args.chronological
    /\ log # <<>>
    /\ log[Len(log)].verdict = "break"
    /\ idx < Len(locations)

\* convert() has been called
ConvertCalled == f_out # "unopened" /\ pc # "output"

\* C10 as stated: on no path of main is convert called with iterative input
\* and chronological=True.
C10_NeverIterativeAndChronological ==
    ~(ConvertCalled /\ args.iterative /\ args.chronological)

\* C10 (amended): main calls convert with iterative input and
\* chronological=True only after the user has answered the "continue
\* anyway" prompt with y or yes (in any case); with any other answer main
\* returns before the output is opened.
C10_OnlyAfterConfirmation ==
    (args.iterative /\ args.chronological) =>
      /\ ConvertCalled => answer \in {"Y", "YES"}
      /\ (pc \notin {"main", "input", "exit2", "raised"} /\ answer \notin {"Y", "YES"}) =>
           (pc = "returned" /\ f_out = "unopened" /\ calls = <<>>)

\* convert is running on iterative input with chronological=True after a "yes"
C10_Witness ==
    /\ pc = "loop"
    /\ args.iterative
    /\ args.chronological
    /\ answer = "YES"

----------------------------------------------------------------------------
(* C11: the output file of main() *)

\* main() is over: it returned, exited with a usage error or an exception left it
MainOver == pc \in {"done", "returned", "exit2", "raised"}

\* C11: once the output file has been opened it is closed on every path out of
\* main(): when convert() returns and also when convert() raises part-way
C11_SinkClosedOnEveryPath ==
    (MainOver /\ f_out # "unopened") => f_out = "closed"

----------------------------------------------------------------------------
(* C12: the segmenter of the track format, read off the output *)

\* where a track point starts in the output; the piece after it carries the
\* record the point was written for
TrkptPositions == { p \in 1 .. Len(output) : output[p] = Open("trkpt") }
TrkptRecord(p) == output[p + 1].item

\* the track point written before the one at p, or 0
PreviousTrkpt(p) ==
    LET before == { q \in TrkptPositions : q < p }
    IN  IF before = {} THEN 0
        ELSE CHOOSE q \in before : \A r \in before : r <= q

\* the pieces right before the track point at p close a segment and open a new one
NewSegmentBefore(p) ==
    /\ p > 4
    /\ SubSeq(output, p - 4, p - 1)
         = <<Close("trkseg"), Close("trk"), Open("trk"), Open("trkseg")>>

MinutesMs(n) == n * 60 * 1000
KmMetres(n) == n * 1000

\* a and b are more than 10 minutes or more than 40 km apart
FarApart(a, b) ==
    \/ Abs(a.timestampMs - b.timestampMs) > MinutesMs(10)
    \/ _distance(a.latitudeE7, a.longitudeE7, b.latitudeE7, b.longitudeE7) > KmMetres(40)

----------------------------------------------------------------------------
(* C13: the round trip through the full json format *)

IsObject(piece) == piece.k = "data" /\ piece.tag = "object"

\* json.loads of a complete jsonfull output: the objects of the array, in
\* order, each with the keys and values json.dumps was given
ParsedBack(out) ==
    LET objects == SelectSeq(out, IsObject)
    IN  [ i \in 1 .. Len(objects) |-> objects[i].item ]

NoFilters == /\ args.startdate = None
             /\ args.enddate = None
             /\ args.accuracy = None
             /\ ~polygon.set

\* C13: with no filter set and the input order kept, converting records that
\* all have a timestamp and coordinates to jsonfull gives an output that
\* parses back to the input records, field for field and in the same order
C13_RoundTripFull ==
    ( /\ args.format = "jsonfull"
      /\ NoFilters
      /\ ~args.chronological
      /\ \A i \in 1 .. Len(items) : items[i].hasTs /\ items[i].hasLat /\ items[i].hasLon
      /\ ConvertOver )
    => /\ ConvertReturned
       /\ WellFormed(output)
       /\ ParsedBack(output) = items

----------------------------------------------------------------------------
(* C14: an iteration of the loop that ends in continue *)

\* the verdicts of the iterations that end in continue
SkipVerdicts == {"skip_missing", "skip_accuracy", "skip_start", "skip_end", "skip_polygon"}

\* this step is an iteration of the loop that ends with one of the verdicts
IterationWith(verdicts) ==
    /\ pc = "loop"
    /\ Len(log') = Len(log) + 1
    /\ log'[Len(log')].verdict \in verdicts

\* nothing written, no record changed, the loop's bookkeeping as it was
NothingEmitted ==
    /\ output' = output
    /\ calls' = calls
    /\ locations' = locations
    /\ first' = first
    /\ last_loc' = last_loc
    /\ added' = added

\* no exception, and the loop takes the next record (the footer after the last)
GoesOn ==
    /\ exc' = exc
    /\ idx' = idx + 1
    /\ pc' = IF idx + 1 < Len(locations) THEN "loop" ELSE "footer"

----------------------------------------------------------------------------
(* C15: what the writer is given *)

\* the record written last before this iteration, as it was written
LastEmitted ==
    IF EmitIndexes = {} THEN NoItem
    ELSE locations[CHOOSE i \in EmitIndexes : \A j \in EmitIndexes : j <= i]

----------------------------------------------------------------------------
(* C16: tracks and segments in the output of the track format *)

\* the number of pieces of out equal to piece
NumberOf(piece, out) == Len(SelectSeq(out, LAMBDA p : p = piece))

\* the track points before which the segmenter asked for a new segment
\* (C12 compares this with the pieces written)
Signalled ==
    { p \in TrkptPositions :
        /\ PreviousTrkpt(p) # 0
        /\ FarApart(TrkptRecord(p), TrkptRecord(PreviousTrkpt(p))) }

\* C16: in the track format, once a record has been written, every track
\* point is written with exactly one track and one segment open (inside gpx,
\* never nested); when convert() returns the footer has closed the pair that
\* was open and the output is balanced, with as many tracks, and as many
\* segments, as 1 plus the number of records the segmenter signalled
C16_TracksBalanced ==
    (args.format = "gpxtracks" /\ added >= 1) =>
        /\ \A p \in TrkptPositions :
              OpenAfter(SubSeq(output, 1, p - 1), <<>>) = <<"trkseg", "trk", "gpx">>
        /\ ConvertReturned =>
              /\ SubSeq(output, Len(output) - 2, Len(output))
                   = <<Close("trkseg"), Close("trk"), Close("gpx")>>
              /\ WellFormed(output)
              /\ NumberOf(Open("trk"), output) = 1 + Cardinality(Signalled)
              /\ NumberOf(Open("trkseg"), output) = 1 + Cardinality(Signalled)
              /\ NumberOf(Close("trk"), output) = NumberOf(Open("trk"), output)
              /\ NumberOf(Close("trkseg"), output) = NumberOf(Open("trkseg"), output)

\* two records more than 10 minutes apart at the same place: two tracks
C16_Witness ==
    /\ args.format = "gpxtracks"
    /\ pc = "done"
    /\ added = 2
    /\ Cardinality(Signalled) = 1
    /\ NumberOf(Open("trk"), output) = 2
    /\ NumberOf(Close("trk"), output) = 2
    /\ \E p \in Signalled :
          _distance(TrkptRecord(p).latitudeE7, TrkptRecord(p).longitudeE7,
                    TrkptRecord(PreviousTrkpt(p)).latitudeE7,
                    TrkptRecord(PreviousTrkpt(p)).longitudeE7) = 0

====
